---- MODULE Spec2Model ----
(***************************************************************************)
(* Model of the database_connection package: the in-memory store           *)
(* (DatabaseConnectionMemory) with its DataQueue, and the CSV store         *)
(* (DatabaseConnectionCSV) behind the DatabaseConnection interface.         *)
(*                                                                         *)
(* One behaviour is the life of one store object: Init is the state after  *)
(* its constructor, and every step is one call of a public method (the CSV *)
(* delete is split at its file-system operations, so that an interruption  *)
(* between them can be observed).                                          *)
(***************************************************************************)
EXTENDS Integers, Sequences, FiniteSets, TLC

VARIABLES
    backend,               \* "memory" or "csv": the class that was constructed
    timestamp_field_name,  \* DatabaseConnectionMemory.timestamp_field_name
    object_id_field_name,  \* DatabaseConnectionMemory.object_id_field_name
    data,                  \* DatabaseConnectionMemory.data (list of dict)
    queue,                 \* the DataQueue returned by the last to_data_queue
    held,                  \* the list the caller holds from its last fetch_data
    time_series_database,  \* DatabaseConnectionCSV.time_series_database
    object_database,       \* DatabaseConnectionCSV.object_database
    path,                  \* DatabaseConnectionCSV.path
    field_names,           \* DatabaseConnectionCSV.field_names
    files,                 \* the file system: path -> file
    pc,                    \* position inside _delete_data_object_time_series
    del,                   \* its locals: arguments and the reader's position
    before,                \* ghost: the file at self.path when the last CSV call began
    history,               \* ghost: the writes that returned, and whether a store
                           \* was constructed on the file since the last of them
    last                   \* ghost: the last completed call, its arguments and outcome

vars == <<backend, timestamp_field_name, object_id_field_name, data, queue, held,
          time_series_database, object_database, path, field_names, files, pc,
          del, before, history, last>>

memVars == <<timestamp_field_name, object_id_field_name, data, queue, held>>
csvVars == <<time_series_database, object_database, path, field_names, files, pc,
             del, before, history>>

(***************************************************************************)
(* Bounds of the model.                                                    *)
(***************************************************************************)
MaxData == 2        \* records held by the in-memory store
MaxBatch == 2       \* records in one write_data call
MaxRows == 2        \* data rows in the CSV file
MaxExtraNext == 2   \* __next__ calls made after the queue is exhausted

(***************************************************************************)
(* Python values.  Every value has the same record shape, so that any two  *)
(* can be compared: None, a str, or a datetime.datetime (loc: the wall     *)
(* clock reading in seconds since 2024-01-01T00:00:00, off: the UTC offset *)
(* in seconds, aware: whether tzinfo is set).                              *)
(***************************************************************************)
None == [k |-> "none", s |-> "", loc |-> 0, off |-> 0, aware |-> FALSE]
Str(s) == [k |-> "str", s |-> s, loc |-> 0, off |-> 0, aware |-> FALSE]
DateTime(loc, off, aware) == [k |-> "dt", s |-> "", loc |-> loc, off |-> off, aware |-> aware]
PyInt(n) == [k |-> "int", s |-> "", loc |-> n, off |-> 0, aware |-> FALSE]

\* str(value) of an int (1..9) or a str.
DecimalText == <<"1", "2", "3", "4", "5", "6", "7", "8", "9">>
PyStr(value) == IF value.k = "int" THEN DecimalText[value.loc] ELSE value.s

\* Optional collection arguments (object_ids, fields): None or a collection.
Absent == [given |-> FALSE, of |-> {}]
Given(S) == [given |-> TRUE, of |-> S]

(***************************************************************************)
(* The timestamp strings of the model, in the order Python compares str    *)
(* (code point by code point: a proper prefix first, '+' before 'Z').      *)
(* The position of a string in this table is its rank in that order.       *)
(***************************************************************************)
TimeTable == <<
    [text |-> "2024-01-01T00:00:00",       loc |-> 0,     off |-> 0,    aware |-> FALSE],
    [text |-> "2024-01-01T00:00:00+00:00", loc |-> 0,     off |-> 0,    aware |-> TRUE],
    [text |-> "2024-01-01T00:00:00Z",      loc |-> 0,     off |-> 0,    aware |-> TRUE],
    [text |-> "2024-01-01T01:00:00+01:00", loc |-> 3600,  off |-> 3600, aware |-> TRUE],
    [text |-> "2024-01-01T23:59:59+00:00", loc |-> 86399, off |-> 0,    aware |-> TRUE],
    [text |-> "2024-01-01T23:59:59Z",      loc |-> 86399, off |-> 0,    aware |-> TRUE],
    [text |-> "2024-01-02T00:00:00+00:00", loc |-> 86400, off |-> 0,    aware |-> TRUE],
    [text |-> "2024-01-02T00:00:00Z",      loc |-> 86400, off |-> 0,    aware |-> TRUE],
    [text |-> "2024-01-02T00:59:59+01:00", loc |-> 89999, off |-> 3600, aware |-> TRUE] >>

\* The strings datetime.isoformat() writes: an offset is written +HH:MM, never Z.
IsoTexts == {"2024-01-01T00:00:00", "2024-01-01T00:00:00+00:00",
             "2024-01-01T01:00:00+01:00", "2024-01-01T23:59:59+00:00",
             "2024-01-02T00:00:00+00:00", "2024-01-02T00:59:59+01:00"}

TimeTexts == {TimeTable[i].text : i \in 1..Len(TimeTable)}
TimeIndex(text) == CHOOSE i \in 1..Len(TimeTable) : TimeTable[i].text = text

\* str < str on timestamp strings.
StrLt(s, t) == TimeIndex(s) < TimeIndex(t)

(***************************************************************************)
(* dateutil.parser.parse: TypeError for None, ValueError for a string that *)
(* is no timestamp, else the datetime the string denotes (naive when the   *)
(* string carries no offset).                                              *)
(***************************************************************************)
ParseError(v) ==
    IF v.k # "str" THEN "TypeError"
    ELSE IF v.s \notin TimeTexts THEN "ValueError"
    ELSE "ok"

Parse(v) ==
    LET e == TimeTable[TimeIndex(v.s)] IN DateTime(e.loc, e.off, e.aware)

\* datetime comparison: naive with naive by wall clock, aware with aware by
\* instant; naive with aware raises TypeError.
Comparable(x, y) == x.k = "dt" /\ y.k = "dt" /\ x.aware = y.aware
DtLt(x, y) == x.loc - x.off < y.loc - y.off

\* The instant a timestamp string denotes, a naive one read as UTC.
Instant(text) == LET e == TimeTable[TimeIndex(text)] IN e.loc - e.off

(***************************************************************************)
(* Field names.  Unset stands for a field name that is None.               *)
(***************************************************************************)
Unset == "<None>"
TimestampName == "timestamp"
ObjectIdName == "object_id"
ValueName == "value"

(***************************************************************************)
(* Inputs of the in-memory store: the datapoints a caller writes and the   *)
(* filters a caller fetches with.  A datapoint is a dict, a function from  *)
(* its keys to values.                                                     *)
(***************************************************************************)
P(ts, id) == [timestamp |-> ts, object_id |-> id]

MemRecords == {
    [timestamp |-> Str("2024-01-01T23:59:59+00:00"), object_id |-> Str("a"),
     value |-> Str("x")],
    P(Str("2024-01-02T00:00:00+00:00"), Str("b")),
    P(Str("2024-01-02T00:59:59+01:00"), Str("a")),
    P(Str("2024-01-01T00:00:00+00:00"), Str("b")),
    P(Str("2024-01-01T00:00:00"), Str("a")),
    P(None, Str("a")),
    [timestamp |-> Str("2024-01-02T00:00:00+00:00")],
    [object_id |-> Str("b")] }

StartTimes == {None, Str("2024-01-01T23:59:59+00:00")}
EndTimes == {None, Str("2024-01-01T23:59:59+00:00")}
ObjectIdSets == {Absent, Given({"a"})}
FieldSets == {Absent, Given({ObjectIdName, ValueName})}

FetchArgs == [start_time : StartTimes, end_time : EndTimes,
              object_ids : ObjectIdSets, fields : FieldSets]

\* The inputs of the runs that iterate a DataQueue.
QueueRecords == {
    [timestamp |-> Str("2024-01-01T23:59:59+00:00"), object_id |-> Str("a"),
     value |-> Str("x")],
    P(Str("2024-01-02T00:00:00+00:00"), Str("b")),
    P(Str("2024-01-02T00:59:59+01:00"), Str("a")),
    P(None, Str("a")) }

QueueArgs == [start_time : StartTimes, end_time : {None},
              object_ids : ObjectIdSets, fields : FieldSets]

\* The inputs of the runs in which a caller changes what a fetch returned:
\* two datapoints that sort into the other order, fetches that select all
\* or some, with and without field selection.
ReadRecords == {
    P(Str("2024-01-02T00:00:00+00:00"), Str("b")),
    [timestamp |-> Str("2024-01-01T23:59:59+00:00"), object_id |-> Str("a"),
     value |-> Str("x")] }

ReadArgs == [start_time : StartTimes, end_time : {None},
             object_ids : {Absent}, fields : FieldSets]

Min(m, n) == IF m < n THEN m ELSE n

(***************************************************************************)
(* DatabaseConnectionMemory.write_data: the loop over the batch.  Every    *)
(* datum is appended as soon as it has passed its two checks, and the      *)
(* first datum that fails raises, which ends the loop.                     *)
(***************************************************************************)
\* write_data that checks the whole batch before it appends any of it.
write_data_loop_AllOrNothing(d, batch, i) ==
    IF \E k \in i..Len(batch) :
            \/ timestamp_field_name # Unset /\ timestamp_field_name \notin DOMAIN batch[k]
            \/ object_id_field_name # Unset /\ object_id_field_name \notin DOMAIN batch[k]
        THEN [outcome |-> "ValueError", data |-> d]
    ELSE [outcome |-> "ok", data |-> d \o SubSeq(batch, i, Len(batch))]

RECURSIVE write_data_loop(_, _, _)
write_data_loop(d, batch, i) ==
    IF i > Len(batch) THEN [outcome |-> "ok", data |-> d]
    ELSE IF timestamp_field_name # Unset /\ timestamp_field_name \notin DOMAIN batch[i]
        THEN [outcome |-> "ValueError", data |-> d]
    ELSE IF object_id_field_name # Unset /\ object_id_field_name \notin DOMAIN batch[i]
        THEN [outcome |-> "ValueError", data |-> d]
    ELSE write_data_loop(Append(d, batch[i]), batch, i + 1)

(***************************************************************************)
(* DatabaseConnectionMemory.fetch_data: the three tests of the loop body   *)
(* on one datapoint: "skip" for a continue, "keep" for an append, or the   *)
(* exception raised (a missing key, a timestamp dateutil cannot parse, a   *)
(* naive datetime compared with an aware one).                             *)
(***************************************************************************)
\* TimeTest with the bounds exclusive: a datapoint on the bound is skipped.
TimeTest_ExclusiveBounds(dp, bound, below) ==
    IF timestamp_field_name \notin DOMAIN dp THEN "KeyError"
    ELSE IF ParseError(dp[timestamp_field_name]) # "ok"
        THEN ParseError(dp[timestamp_field_name])
    ELSE IF ~Comparable(Parse(dp[timestamp_field_name]), Parse(bound)) THEN "TypeError"
    ELSE IF below /\ ~DtLt(Parse(bound), Parse(dp[timestamp_field_name])) THEN "skip"
    ELSE IF ~below /\ ~DtLt(Parse(dp[timestamp_field_name]), Parse(bound)) THEN "skip"
    ELSE "keep"

TimeTest(dp, bound, below) ==
    IF timestamp_field_name \notin DOMAIN dp THEN "KeyError"
    ELSE IF ParseError(dp[timestamp_field_name]) # "ok"
        THEN ParseError(dp[timestamp_field_name])
    ELSE IF ~Comparable(Parse(dp[timestamp_field_name]), Parse(bound)) THEN "TypeError"
    ELSE IF below /\ DtLt(Parse(dp[timestamp_field_name]), Parse(bound)) THEN "skip"
    ELSE IF ~below /\ DtLt(Parse(bound), Parse(dp[timestamp_field_name])) THEN "skip"
    ELSE "keep"

ObjectIdTest(dp, ids) ==
    IF object_id_field_name \notin DOMAIN dp THEN "KeyError"
    ELSE IF dp[object_id_field_name].k = "str" /\ dp[object_id_field_name].s \in ids
        THEN "keep"
    ELSE "skip"

fetch_data_test(dp, a) ==
    LET t1 == IF a.start_time # None THEN TimeTest(dp, a.start_time, TRUE) ELSE "keep"
        t2 == IF a.end_time # None THEN TimeTest(dp, a.end_time, FALSE) ELSE "keep"
        t3 == IF a.object_ids.given THEN ObjectIdTest(dp, a.object_ids.of) ELSE "keep"
    IN  IF t1 # "keep" THEN t1
        ELSE IF t2 # "keep" THEN t2
        ELSE t3

\* A projection that returns every requested field, None for the absent ones.
Project_AllRequested(dp, fields) ==
    IF fields.given
        THEN [key \in fields.of |-> IF key \in DOMAIN dp THEN dp[key] ELSE None]
    ELSE dp

\* {key: value for key, value in datapoint.items() if fields is None or key in fields}
Project(dp, fields) ==
    IF fields.given THEN [key \in DOMAIN dp \cap fields.of |-> dp[key]] ELSE dp

RECURSIVE fetch_data_loop(_, _, _, _)
fetch_data_loop(d, a, i, fetched_data) ==
    IF i > Len(d) THEN [outcome |-> "ok", result |-> fetched_data]
    ELSE LET t == fetch_data_test(d[i], a) IN
        IF t = "skip" THEN fetch_data_loop(d, a, i + 1, fetched_data)
        ELSE IF t = "keep"
            THEN fetch_data_loop(d, a, i + 1, Append(fetched_data, Project(d[i], a.fields)))
        ELSE [outcome |-> t, result |-> <<>>]

\* fetch_data without the two checks on the configured field names.
fetch_data_Unchecked(d, a) ==
    IF a.start_time # None /\ ParseError(a.start_time) # "ok"
        THEN [outcome |-> ParseError(a.start_time), result |-> <<>>]
    ELSE IF a.end_time # None /\ ParseError(a.end_time) # "ok"
        THEN [outcome |-> ParseError(a.end_time), result |-> <<>>]
    ELSE fetch_data_loop(d, a, 1, <<>>)

fetch_data(d, a) ==
    IF (a.start_time # None \/ a.end_time # None) /\ timestamp_field_name = Unset
        THEN [outcome |-> "ValueError", result |-> <<>>]
    ELSE IF a.object_ids.given /\ object_id_field_name = Unset
        THEN [outcome |-> "ValueError", result |-> <<>>]
    ELSE IF a.start_time # None /\ ParseError(a.start_time) # "ok"
        THEN [outcome |-> ParseError(a.start_time), result |-> <<>>]
    ELSE IF a.end_time # None /\ ParseError(a.end_time) # "ok"
        THEN [outcome |-> ParseError(a.end_time), result |-> <<>>]
    ELSE fetch_data_loop(d, a, 1, <<>>)

(***************************************************************************)
(* DataQueue.__init__: data.sort(key = datapoint[timestamp_field_name]).   *)
(* The keys are the raw field values, here timestamp strings, compared by  *)
(* str <.  list.sort is stable: a datapoint goes behind every earlier one  *)
(* whose key is not greater.  Computing a key raises KeyError when the     *)
(* field is absent, and comparing None with anything raises TypeError.     *)
(***************************************************************************)
KeyLt(x, y) == StrLt(x.s, y.s)

RECURSIVE sort_by_key(_, _)
sort_by_key(d, name) ==
    IF d = <<>> THEN <<>>
    ELSE LET sorted == sort_by_key(SubSeq(d, 1, Len(d) - 1), name)
             x == d[Len(d)]
             n == Cardinality({i \in 1..Len(sorted) : ~KeyLt(x[name], sorted[i][name])})
         IN  SubSeq(sorted, 1, n) \o <<x>> \o SubSeq(sorted, n + 1, Len(sorted))

NoQueue == [exists |-> FALSE, data |-> <<>>, timestamp_field_name |-> Unset,
            num_datapoints |-> 0, next_data_pointer |-> 0,
            fetched |-> <<>>, calls |-> 0, source |-> <<>>]

\* __init__ that leaves the list as it is when a datapoint has no timestamp.
DataQueue_init_Lenient(d, name) ==
    IF \E i \in 1..Len(d) : name \notin DOMAIN d[i]
        THEN [outcome |-> "ok",
              queue |-> [exists |-> TRUE, data |-> d, timestamp_field_name |-> name,
                         num_datapoints |-> Len(d), next_data_pointer |-> 0,
                         fetched |-> d, calls |-> 0, source |-> <<>>]]
    ELSE IF Len(d) >= 2 /\ \E i \in 1..Len(d) : d[i][name].k # "str"
        THEN [outcome |-> "TypeError",
              queue |-> [exists |-> FALSE, data |-> <<>>, timestamp_field_name |-> Unset,
                         num_datapoints |-> 0, next_data_pointer |-> 0,
                         fetched |-> <<>>, calls |-> 0, source |-> <<>>]]
    ELSE [outcome |-> "ok",
          queue |-> [exists |-> TRUE, data |-> sort_by_key(d, name),
                     timestamp_field_name |-> name,
                     num_datapoints |-> Len(d), next_data_pointer |-> 0,
                     fetched |-> d, calls |-> 0, source |-> <<>>]]

\* fetched, calls and source are ghosts: the list the queue was built from,
\* as fetch_data returned it, the number of __next__ calls made so far, and
\* the records the store held when to_data_queue was called.
DataQueue_init(d, name) ==
    IF \E i \in 1..Len(d) : name \notin DOMAIN d[i]
        THEN [outcome |-> "KeyError", queue |-> NoQueue]
    ELSE IF Len(d) >= 2 /\ \E i \in 1..Len(d) : d[i][name].k # "str"
        THEN [outcome |-> "TypeError", queue |-> NoQueue]
    ELSE [outcome |-> "ok",
          queue |-> [exists |-> TRUE, data |-> sort_by_key(d, name),
                     timestamp_field_name |-> name,
                     num_datapoints |-> Len(d), next_data_pointer |-> 0,
                     fetched |-> d, calls |-> 0, source |-> <<>>]]

\* __next__ of a queue that starts over once it has signalled its end.
DataQueue_next_Restarting(q) ==
    IF q.next_data_pointer >= q.num_datapoints
        THEN [outcome |-> "StopIteration", result |-> <<>>,
              queue |-> [q EXCEPT !.next_data_pointer = 0]]
    ELSE [outcome |-> "ok", result |-> <<q.data[q.next_data_pointer + 1]>>,
          queue |-> [q EXCEPT !.next_data_pointer = q.next_data_pointer + 1]]

\* __next__ that moves the cursor two records on.
DataQueue_next_Skipping(q) ==
    IF q.next_data_pointer >= q.num_datapoints
        THEN [outcome |-> "StopIteration", result |-> <<>>, queue |-> q]
    ELSE [outcome |-> "ok", result |-> <<q.data[q.next_data_pointer + 1]>>,
          queue |-> [q EXCEPT !.next_data_pointer =
                        Min(q.next_data_pointer + 2, q.num_datapoints)]]

\* __next__ of a queue that is a live view: it reads the list of the store.
DataQueue_next_Live(q) ==
    IF q.next_data_pointer >= Len(data)
        THEN [outcome |-> "StopIteration", result |-> <<>>, queue |-> q]
    ELSE [outcome |-> "ok", result |-> <<data[q.next_data_pointer + 1]>>,
          queue |-> [q EXCEPT !.next_data_pointer = q.next_data_pointer + 1]]

\* DataQueue.__next__
DataQueue_next(q) ==
    IF q.next_data_pointer >= q.num_datapoints
        THEN [outcome |-> "StopIteration", result |-> <<>>, queue |-> q]
    ELSE [outcome |-> "ok", result |-> <<q.data[q.next_data_pointer + 1]>>,
          queue |-> [q EXCEPT !.next_data_pointer = q.next_data_pointer + 1]]

(***************************************************************************)
(* Object identity in fetch_data.  The list it returns is the list it made *)
(* (fetched_data = []), and every datapoint in it is the dict its dict     *)
(* comprehension made: an object of its own ("is" 0), not the dict at an   *)
(* index of self.data.  A datapoint's values are scalars (write_data's     *)
(* docstring allows no lists), which cannot be changed in place.           *)
(***************************************************************************)
NoHeld == [list |-> "none", items |-> <<>>]

FetchedList == "fetched_data"

\* A fetch that hands out the stored dict when no field selection is made.
fetched_datapoint_SameObject(dp, i, fields) ==
    IF fields.given THEN [is |-> 0, value |-> Project(dp, fields)]
    ELSE [is |-> i, value |-> dp]

fetched_datapoint(dp, i, fields) == [is |-> 0, value |-> Project(dp, fields)]

\* The objects of the list a fetch_data call returns.
RECURSIVE fetched_objects(_, _, _, _)
fetched_objects(d, a, i, fetched_data) ==
    IF i > Len(d) THEN fetched_data
    ELSE IF fetch_data_test(d[i], a) = "keep"
        THEN fetched_objects(d, a, i + 1,
                Append(fetched_data, fetched_datapoint(d[i], i, a.fields)))
    ELSE fetched_objects(d, a, i + 1, fetched_data)

(***************************************************************************)
(* The calls on the in-memory store.  write_data takes a list of dicts (a  *)
(* single dict is the list of length one).                                 *)
(***************************************************************************)
Idle == [op |-> "init", outcome |-> "ok", args |-> <<>>, result |-> <<>>]

WriteData(Records) ==
    /\ backend = "memory"
    /\ \E n \in 0..Min(MaxBatch, MaxData - Len(data)) :
        \E batch \in [1..n -> Records] :
            LET r == write_data_loop(data, batch, 1) IN
                /\ data' = r.data
                /\ last' = [op |-> "write_data", outcome |-> r.outcome,
                            args |-> [batch |-> batch], result |-> <<>>]
    /\ UNCHANGED <<backend, timestamp_field_name, object_id_field_name, queue, held,
                   csvVars>>

FetchData(Args) ==
    /\ backend = "memory"
    /\ \E a \in Args :
        LET r == fetch_data(data, a) IN
            last' = [op |-> "fetch_data", outcome |-> r.outcome,
                     args |-> a, result |-> r.result]
    /\ UNCHANGED <<backend, timestamp_field_name, object_id_field_name, data, queue,
                   csvVars>>

ToDataQueue(Args) ==
    /\ backend = "memory"
    /\ \E a \in Args :
        LET r == fetch_data(data, a)
            q == DataQueue_init(r.result, timestamp_field_name)
        IN  IF r.outcome # "ok"
                THEN /\ last' = [op |-> "to_data_queue", outcome |-> r.outcome,
                                 args |-> a, result |-> <<>>]
                     /\ UNCHANGED queue
            ELSE /\ last' = [op |-> "to_data_queue", outcome |-> q.outcome,
                             args |-> a, result |-> <<>>]
                 /\ queue' = IF q.outcome = "ok"
                                THEN [q.queue EXCEPT !.source = data]
                             ELSE queue
    \* data.sort sorts the list fetch_data returned, in place.
    /\ data' = IF FetchedList = "self.data" THEN sort_by_key(data, timestamp_field_name)
               ELSE data
    /\ UNCHANGED <<backend, timestamp_field_name, object_id_field_name, held, csvVars>>

QueueNext ==
    /\ backend = "memory"
    /\ queue.exists
    /\ queue.calls < queue.num_datapoints + MaxExtraNext
    /\ LET r == DataQueue_next(queue) IN
        /\ queue' = [r.queue EXCEPT !.calls = queue.calls + 1]
        /\ last' = [op |-> "next", outcome |-> r.outcome, args |-> <<>>,
                    result |-> r.result]
    /\ UNCHANGED <<backend, timestamp_field_name, object_id_field_name, data, held,
                   csvVars>>

\* DataQueue.__iter__: return self.
QueueIter ==
    /\ backend = "memory"
    /\ queue.exists
    /\ last' = [op |-> "iter", outcome |-> "ok", args |-> <<>>, result |-> <<>>]
    /\ UNCHANGED <<backend, memVars, csvVars>>

\* fetch_data, and the list the caller holds when it has returned.
HeldFetchData ==
    /\ FetchData(ReadArgs)
    /\ held' = IF last'.outcome = "ok"
                 THEN [list |-> FetchedList,
                       items |-> fetched_objects(data, last'.args, 1, <<>>)]
               ELSE held

\* The caller sets a field of a datapoint of the list it holds:
\* fetched[i]['object_id'] = 'z'.  The dict changes, wherever it is held.
CallerSetsField ==
    /\ backend = "memory"
    /\ \E i \in 1..Len(held.items) :
        LET it == held.items[i]
            value == [key \in DOMAIN it.value \cup {ObjectIdName} |->
                        IF key = ObjectIdName THEN Str("z") ELSE it.value[key]]
        IN  /\ it.value # value
            /\ held' = [held EXCEPT !.items =
                    [k \in 1..Len(held.items) |->
                        IF k = i \/ (it.is # 0 /\ held.items[k].is = it.is)
                            THEN [is |-> it.is, value |-> value]
                        ELSE held.items[k]]]
            /\ data' = IF it.is # 0 THEN [data EXCEPT ![it.is] = value] ELSE data
            /\ last' = [op |-> "caller_sets_field", outcome |-> "ok",
                        args |-> [index |-> i], result |-> <<>>]
    /\ UNCHANGED <<backend, timestamp_field_name, object_id_field_name, queue, csvVars>>

\* The caller removes the last datapoint of the list it holds: fetched.pop().
CallerPops ==
    /\ backend = "memory"
    /\ held.items # <<>>
    /\ held' = [held EXCEPT !.items = SubSeq(@, 1, Len(@) - 1)]
    /\ data' = IF held.list = "self.data" THEN SubSeq(data, 1, Len(data) - 1) ELSE data
    /\ last' = [op |-> "caller_pops", outcome |-> "ok", args |-> <<>>, result |-> <<>>]
    /\ UNCHANGED <<backend, timestamp_field_name, object_id_field_name, queue, csvVars>>

MemWriteData == WriteData(MemRecords)
MemFetchData == FetchData(FetchArgs) /\ UNCHANGED held
QueueWriteData == WriteData(QueueRecords)
QueueToDataQueue == ToDataQueue(QueueArgs)
ReadsWriteData == WriteData(ReadRecords)
ReadsToDataQueue == ToDataQueue(ReadArgs)

(***************************************************************************)
(* The CSV store.  A file is its lines, a line the texts of its cells; the *)
(* first line of a store's file is the header.  csv writes a cell text and *)
(* reads the same text back (it quotes what needs quoting).                *)
(***************************************************************************)
TempPath == ".temp.csv"
Paths == {"data.csv", TempPath}
DataFieldNames == <<ValueName>>

NoFile == [exists |-> FALSE, lines |-> <<>>]

\* self.field_names as the constructor builds it (data_field_names None is <<>>).
FieldNames(ts_db, obj_db, data_field_names) ==
    (IF ts_db THEN <<TimestampName>> ELSE <<>>)
        \o (IF obj_db THEN <<ObjectIdName>> ELSE <<>>)
        \o data_field_names

NoHistory == [written |-> <<>>, reopened |-> FALSE]

Range(f) == {f[i] : i \in DOMAIN f}

\* dict.get(key): None when the key is absent.
Get(dict, key) == IF key \in DOMAIN dict THEN dict[key] ELSE None

\* dict.update(other)
Update(dict, other) ==
    [key \in DOMAIN dict \cup DOMAIN other |->
        IF key \in DOMAIN other THEN other[key] ELSE dict[key]]

(***************************************************************************)
(* DatabaseConnection._python_datetime_utc: a datetime is taken as it is,  *)
(* anything else goes to dateutil.parser.parse (the bare except); a naive  *)
(* datetime is labelled UTC, an aware one converted to UTC.                *)
(***************************************************************************)
_python_datetime_utc_error(timestamp) ==
    IF timestamp.k = "dt" THEN "ok" ELSE ParseError(timestamp)

_python_datetime_utc(timestamp) ==
    LET d == IF timestamp.k = "dt" THEN timestamp ELSE Parse(timestamp) IN
        IF d.aware THEN DateTime(d.loc - d.off, 0, TRUE) ELSE DateTime(d.loc, 0, TRUE)

\* datetime.isoformat()
IsoFormat(d) ==
    TimeTable[CHOOSE i \in 1..Len(TimeTable) :
        /\ TimeTable[i].text \in IsoTexts
        /\ TimeTable[i].loc = d.loc
        /\ TimeTable[i].off = d.off
        /\ TimeTable[i].aware = d.aware].text

(***************************************************************************)
(* DatabaseConnectionCSV._convert_to_string, _convert_from_string, with no *)
(* converter functions registered (the constructor's default).  A value of *)
(* a field other than timestamp is None, a str or an int here.             *)
(***************************************************************************)
_convert_to_string_error(field_name, value) ==
    IF value = None THEN "ok"
    ELSE IF field_name = TimestampName /\ value.k # "dt" THEN "AttributeError"
    ELSE "ok"

_convert_to_string(field_name, value) ==
    IF value = None THEN ""
    ELSE IF field_name = TimestampName THEN IsoFormat(value)
    ELSE PyStr(value)

_convert_from_string_error(field_name, string) ==
    IF string = "" THEN "ok"
    ELSE IF field_name = TimestampName THEN ParseError(Str(string))
    ELSE "ok"

\* _convert_from_string that leaves an empty text as the empty string.
_convert_from_string_KeepEmpty(field_name, string) ==
    IF field_name = TimestampName
        THEN IF string = "" THEN None ELSE Parse(Str(string))
    ELSE Str(string)

_convert_from_string(field_name, string) ==
    IF string = "" THEN None
    ELSE IF field_name = TimestampName THEN Parse(Str(string))
    ELSE Str(string)

\* csv.DictReader: the cell of a row under a name of the file's header.
Cell(header, row, name) ==
    IF \E i \in 1..Min(Len(header), Len(row)) : header[i] = name
        THEN row[CHOOSE i \in 1..Min(Len(header), Len(row)) : header[i] = name]
    ELSE ""

Header(file) == IF file.lines = <<>> THEN <<>> ELSE Head(file.lines)
Rows(file) == IF file.lines = <<>> THEN <<>> ELSE Tail(file.lines)

\* value_dict = {field_name: self._convert_from_string(field_name,
\*               string_dict.get(field_name)) for field_name in self.field_names}
ValueDictError(header, row) ==
    IF \E f \in Range(field_names) :
            _convert_from_string_error(f, Cell(header, row, f)) # "ok"
        THEN "ValueError"
    ELSE "ok"

ValueDict(header, row) ==
    [f \in Range(field_names) |-> _convert_from_string(f, Cell(header, row, f))]

(***************************************************************************)
(* DatabaseConnectionCSV._write_data_object_time_series: the row appended, *)
(* or the exception raised before the file is opened.                      *)
(***************************************************************************)
WriteValueDict(timestamp, object_id, d) ==
    Update([timestamp |-> timestamp, object_id |-> object_id], d)

_write_error(timestamp, object_id, d) ==
    LET value_dict == WriteValueDict(timestamp, object_id, d) IN
        IF \E f \in Range(field_names) :
                _convert_to_string_error(f, Get(value_dict, f)) # "ok"
            THEN "AttributeError"
        ELSE "ok"

\* _write_data_object_time_series that hands None to str() like any value.
_write_row_NoneAsText(timestamp, object_id, d) ==
    LET value_dict == WriteValueDict(timestamp, object_id, d) IN
        [i \in 1..Len(field_names) |->
            IF Get(value_dict, field_names[i]) = None THEN "None"
            ELSE _convert_to_string(field_names[i], Get(value_dict, field_names[i]))]

_write_row(timestamp, object_id, d) ==
    LET value_dict == WriteValueDict(timestamp, object_id, d) IN
        [i \in 1..Len(field_names) |->
            _convert_to_string(field_names[i], Get(value_dict, field_names[i]))]

(***************************************************************************)
(* DatabaseConnectionCSV._fetch_data_object_time_series: the tests of the  *)
(* loop body on one value_dict, and the loop over the rows of the file.    *)
(* Ordering None with a datetime, or a naive datetime with an aware one,   *)
(* raises TypeError.                                                       *)
(***************************************************************************)
_fetch_time_test(value, bound, below) ==
    IF ~Comparable(value, bound) THEN "TypeError"
    ELSE IF below /\ DtLt(value, bound) THEN "skip"
    ELSE IF ~below /\ DtLt(bound, value) THEN "skip"
    ELSE "keep"

_fetch_test(value_dict, a) ==
    LET t1 == IF a.start_time # None
                THEN _fetch_time_test(value_dict[TimestampName], a.start_time, TRUE)
                ELSE "keep"
        t2 == IF a.end_time # None
                THEN _fetch_time_test(value_dict[TimestampName], a.end_time, FALSE)
                ELSE "keep"
        t3 == IF a.object_ids.given
                THEN IF /\ value_dict[ObjectIdName].k = "str"
                        /\ value_dict[ObjectIdName].s \in a.object_ids.of
                        THEN "keep" ELSE "skip"
                ELSE "keep"
    IN  IF t1 # "keep" THEN t1
        ELSE IF t2 # "keep" THEN t2
        ELSE t3

RECURSIVE _fetch_loop(_, _, _, _)
_fetch_loop(file, a, i, fetched_data) ==
    IF i > Len(Rows(file)) THEN [outcome |-> "ok", result |-> fetched_data]
    ELSE IF ValueDictError(Header(file), Rows(file)[i]) # "ok"
        THEN [outcome |-> "ValueError", result |-> <<>>]
    ELSE LET value_dict == ValueDict(Header(file), Rows(file)[i])
             t == _fetch_test(value_dict, a)
         IN  IF t = "skip" THEN _fetch_loop(file, a, i + 1, fetched_data)
             ELSE IF t = "keep"
                 THEN _fetch_loop(file, a, i + 1, Append(fetched_data, value_dict))
             ELSE [outcome |-> t, result |-> <<>>]

\* DatabaseConnection.fetch_data_object_time_series
fetch_data_object_time_series(file, a) ==
    IF ~time_series_database \/ ~object_database
        THEN [outcome |-> "ValueError", result |-> <<>>]
    ELSE IF a.start_time # None /\ _python_datetime_utc_error(a.start_time) # "ok"
        THEN [outcome |-> _python_datetime_utc_error(a.start_time), result |-> <<>>]
    ELSE IF a.end_time # None /\ _python_datetime_utc_error(a.end_time) # "ok"
        THEN [outcome |-> _python_datetime_utc_error(a.end_time), result |-> <<>>]
    ELSE _fetch_loop(file,
            [start_time |-> IF a.start_time # None
                                THEN _python_datetime_utc(a.start_time) ELSE None,
             end_time |-> IF a.end_time # None
                                THEN _python_datetime_utc(a.end_time) ELSE None,
             object_ids |-> a.object_ids],
            1, <<>>)

(***************************************************************************)
(* DatabaseConnectionCSV._delete_data_object_time_series: the tests of the *)
(* loop body on one value_dict: "skip" for a continue (the row is left out *)
(* of the rewritten file), "keep" for writer.writerow.                     *)
(***************************************************************************)
\* _delete_test with the test on the object id the other way round.
_delete_test_OtherIds(value_dict, start_time, end_time, object_ids) ==
    IF ~Comparable(value_dict[TimestampName], start_time) THEN "TypeError"
    ELSE IF DtLt(start_time, value_dict[TimestampName]) THEN "skip"
    ELSE IF DtLt(value_dict[TimestampName], end_time) THEN "skip"
    ELSE IF ~(/\ value_dict[ObjectIdName].k = "str"
              /\ value_dict[ObjectIdName].s \in object_ids)
        THEN "skip"
    ELSE "keep"

_delete_test(value_dict, start_time, end_time, object_ids) ==
    IF ~Comparable(value_dict[TimestampName], start_time) THEN "TypeError"
    ELSE IF DtLt(start_time, value_dict[TimestampName]) THEN "skip"
    ELSE IF DtLt(value_dict[TimestampName], end_time) THEN "skip"
    ELSE IF /\ value_dict[ObjectIdName].k = "str"
            /\ value_dict[ObjectIdName].s \in object_ids
        THEN "skip"
    ELSE "keep"

\* delete_error without the check that object ids are given.
delete_error_IdsOptional(a) ==
    IF ~time_series_database \/ ~object_database THEN "ValueError"
    ELSE IF a.start_time = None THEN "ValueError"
    ELSE IF a.end_time = None THEN "ValueError"
    ELSE IF _python_datetime_utc_error(a.start_time) # "ok"
        THEN _python_datetime_utc_error(a.start_time)
    ELSE _python_datetime_utc_error(a.end_time)

\* DatabaseConnection.delete_data_object_time_series: the checks made before
\* _delete_data_object_time_series is called.
delete_error(a) ==
    IF ~time_series_database \/ ~object_database THEN "ValueError"
    ELSE IF a.start_time = None THEN "ValueError"
    ELSE IF a.end_time = None THEN "ValueError"
    ELSE IF ~a.object_ids.given THEN "ValueError"
    ELSE IF _python_datetime_utc_error(a.start_time) # "ok"
        THEN _python_datetime_utc_error(a.start_time)
    ELSE _python_datetime_utc_error(a.end_time)

\* DatabaseConnection.write_data_object_time_series
write_data_object_time_series(file, timestamp, object_id, d) ==
    IF ~time_series_database \/ ~object_database
        THEN [outcome |-> "ValueError", file |-> file]
    ELSE IF _python_datetime_utc_error(timestamp) # "ok"
        THEN [outcome |-> _python_datetime_utc_error(timestamp), file |-> file]
    ELSE IF _write_error(_python_datetime_utc(timestamp), object_id, d) # "ok"
        THEN [outcome |-> _write_error(_python_datetime_utc(timestamp), object_id, d),
              file |-> file]
    ELSE [outcome |-> "ok",
          file |-> [exists |-> TRUE,
                    lines |-> Append(file.lines,
                        _write_row(_python_datetime_utc(timestamp), object_id, d))]]

(***************************************************************************)
(* Inputs of the CSV store.                                                *)
(***************************************************************************)
EmptyDict == <<>>

CsvWrites == {
    [timestamp |-> Str("2024-01-01T00:00:00Z"), object_id |-> Str("a"),
     data |-> [value |-> Str("x"), extra |-> Str("y")]],
    [timestamp |-> Str("2024-01-02T00:00:00Z"), object_id |-> Str("b"),
     data |-> EmptyDict],
    [timestamp |-> DateTime(89999, 3600, TRUE), object_id |-> Str("a"),
     data |-> [value |-> Str("x")]],
    [timestamp |-> Str("2024-01-01T00:00:00"), object_id |-> None,
     data |-> EmptyDict],
    [timestamp |-> Str("2024-01-02T00:00:00Z"), object_id |-> Str("a"),
     data |-> [timestamp |-> None]],
    [timestamp |-> None, object_id |-> Str("a"), data |-> EmptyDict] }

\* Writes of the values the conversion to and from text treats differently.
RoundTripWrites == {
    [timestamp |-> Str("2024-01-01T00:00:00Z"), object_id |-> Str("a"),
     data |-> [value |-> Str("x")]],
    [timestamp |-> Str("2024-01-02T00:00:00Z"), object_id |-> Str("b"),
     data |-> [value |-> Str("")]],
    [timestamp |-> DateTime(89999, 3600, TRUE), object_id |-> Str("a"),
     data |-> [value |-> PyInt(5)]],
    [timestamp |-> Str("2024-01-01T00:00:00"), object_id |-> Str("b"),
     data |-> EmptyDict],
    [timestamp |-> Str("2024-01-01T00:00:00Z"), object_id |-> Str("a"),
     data |-> [value |-> None, extra |-> Str("y")]] }

CsvFetchArgs == [start_time : {None, Str("2024-01-01T23:59:59Z")},
                 end_time : {None, Str("2024-01-01T23:59:59Z")},
                 object_ids : ObjectIdSets]

DeleteArgs == [start_time : {None, Str("2024-01-01T00:00:00Z"), Str("2024-01-02T00:00:00Z")},
               end_time : {None, Str("2024-01-01T00:00:00Z"), Str("2024-01-01T23:59:59Z")},
               object_ids : ObjectIdSets]

NoDelete == [args |-> <<>>, start_time |-> None, end_time |-> None,
             object_ids |-> {}, row |-> 0]

(***************************************************************************)
(* The calls on the CSV store.                                             *)
(***************************************************************************)
WriteDataObjectTimeSeries(Writes) ==
    /\ backend = "csv"
    /\ pc = "idle"
    /\ Len(Rows(files[path])) < MaxRows
    /\ \E w \in Writes :
        LET r == write_data_object_time_series(files[path], w.timestamp, w.object_id,
                                               w.data)
        IN  /\ files' = [files EXCEPT ![path] = r.file]
            /\ last' = [op |-> "write_data_object_time_series", outcome |-> r.outcome,
                        args |-> w, result |-> <<>>]
    /\ before' = files[path]
    /\ UNCHANGED <<backend, memVars, time_series_database, object_database, path,
                   field_names, pc, del>>

\* The history is kept in the runs that construct stores on existing files.
CsvWriteData == WriteDataObjectTimeSeries(CsvWrites) /\ UNCHANGED history

RoundTripWriteData ==
    /\ WriteDataObjectTimeSeries(RoundTripWrites)
    /\ history' = IF last'.outcome = "ok"
                    THEN [written |-> Append(history.written, last'.args),
                          reopened |-> FALSE]
                  ELSE history

FetchDataObjectTimeSeries ==
    /\ backend = "csv"
    /\ pc = "idle"
    /\ \E a \in CsvFetchArgs :
        LET r == fetch_data_object_time_series(files[path], a) IN
            last' = [op |-> "fetch_data_object_time_series", outcome |-> r.outcome,
                     args |-> a, result |-> r.result]
    /\ before' = files[path]
    /\ UNCHANGED <<backend, memVars, time_series_database, object_database, path,
                   field_names, history, files, pc, del>>

(***************************************************************************)
(* delete_data_object_time_series, one step per file-system operation:     *)
(*   DeleteCall         the argument checks, open(self.path, 'r')          *)
(*   DeleteOpenTemp     open('.temp.csv', 'w'): the file is created, or    *)
(*                      truncated if it exists                             *)
(*   DeleteWriteHeader  writer.writeheader()                               *)
(*   DeleteRow          one turn of the loop over the reader, or its end   *)
(*                      and the closing of both files                      *)
(*   DeleteReplace      os.replace('.temp.csv', self.path)                 *)
(* The reader reads the file at self.path as it is when it reads.  A write *)
(* is taken to reach the file at once; what io buffering holds back is a   *)
(* shorter file of the same kind, and close() flushes before the replace.  *)
(***************************************************************************)
DeleteCall ==
    /\ backend = "csv"
    /\ pc = "idle"
    /\ \E a \in DeleteArgs :
        IF delete_error(a) # "ok"
            THEN /\ last' = [op |-> "delete_data_object_time_series",
                             outcome |-> delete_error(a), args |-> a, result |-> <<>>]
                 /\ UNCHANGED <<pc, del>>
        ELSE /\ pc' = "open_temp"
             /\ del' = [args |-> a,
                        start_time |-> _python_datetime_utc(a.start_time),
                        end_time |-> _python_datetime_utc(a.end_time),
                        object_ids |-> a.object_ids.of, row |-> 1]
             /\ UNCHANGED last
    /\ before' = files[path]
    /\ UNCHANGED <<backend, memVars, time_series_database, object_database, path,
                   field_names, history, files>>

DeleteOpenTemp ==
    /\ pc = "open_temp"
    /\ files' = [files EXCEPT ![TempPath] = [exists |-> TRUE, lines |-> <<>>]]
    /\ pc' = "write_header"
    /\ UNCHANGED <<backend, memVars, time_series_database, object_database, path,
                   field_names, history, del, before, last>>

\* A delete that writes no header row to the temporary file.
DeleteWriteHeader_NoHeader ==
    /\ pc = "write_header"
    /\ pc' = "rows"
    /\ UNCHANGED <<backend, memVars, time_series_database, object_database, path,
                   field_names, history, files, del, before, last>>

DeleteWriteHeader ==
    /\ pc = "write_header"
    /\ files' = [files EXCEPT ![TempPath].lines = Append(@, field_names)]
    /\ pc' = "rows"
    /\ UNCHANGED <<backend, memVars, time_series_database, object_database, path,
                   field_names, history, del, before, last>>

DeleteRow ==
    /\ pc = "rows"
    /\ LET file == files[path]
           header == Header(file)
       IN  IF del.row > Len(Rows(file))
               THEN /\ pc' = "replace"
                    /\ UNCHANGED <<files, del, last>>
           ELSE IF ValueDictError(header, Rows(file)[del.row]) # "ok"
               THEN /\ pc' = "idle"
                    /\ last' = [op |-> "delete_data_object_time_series",
                                outcome |-> "ValueError", args |-> del.args,
                                result |-> <<>>]
                    /\ del' = NoDelete
                    /\ UNCHANGED files
           ELSE LET row == Rows(file)[del.row]
                    t == _delete_test(ValueDict(header, row), del.start_time,
                                      del.end_time, del.object_ids)
                IN  IF t = "keep"
                        THEN /\ files' = [files EXCEPT ![TempPath].lines =
                                    Append(@, [i \in 1..Len(field_names) |->
                                                Cell(header, row, field_names[i])])]
                             /\ del' = [del EXCEPT !.row = @ + 1]
                             /\ UNCHANGED <<pc, last>>
                    ELSE IF t = "skip"
                        THEN /\ del' = [del EXCEPT !.row = @ + 1]
                             /\ UNCHANGED <<pc, files, last>>
                    ELSE /\ pc' = "idle"
                         /\ last' = [op |-> "delete_data_object_time_series",
                                     outcome |-> t, args |-> del.args, result |-> <<>>]
                         /\ del' = NoDelete
                         /\ UNCHANGED files
    /\ UNCHANGED <<backend, memVars, time_series_database, object_database, path,
                   field_names, history, before>>

DeleteReplace ==
    /\ pc = "replace"
    /\ files' = IF path = TempPath THEN files
                ELSE [files EXCEPT ![path] = files[TempPath], ![TempPath] = NoFile]
    /\ pc' = "idle"
    /\ last' = [op |-> "delete_data_object_time_series", outcome |-> "ok",
                args |-> del.args, result |-> <<>>]
    /\ del' = NoDelete
    /\ UNCHANGED <<backend, memVars, time_series_database, object_database, path,
                   field_names, history, before>>

\* The process is interrupted (killed) inside _delete_data_object_time_series.
Interrupt ==
    /\ pc \in {"open_temp", "write_header", "rows", "replace"}
    /\ pc' = "dead"
    /\ last' = [op |-> "delete_data_object_time_series", outcome |-> "interrupted",
                args |-> del.args, result |-> <<>>]
    /\ del' = NoDelete
    /\ UNCHANGED <<backend, memVars, time_series_database, object_database, path,
                   field_names, history, files, before>>

InitMemory ==
    /\ backend = "memory"
    /\ timestamp_field_name \in {Unset, TimestampName}
    /\ object_id_field_name \in {Unset, ObjectIdName}
    /\ data = <<>>
    /\ queue = NoQueue
    /\ held = NoHeld
    /\ time_series_database = TRUE
    /\ object_database = TRUE
    /\ path = "data.csv"
    /\ field_names = <<>>
    /\ files = [p \in Paths |-> NoFile]
    /\ pc = "idle"
    /\ del = NoDelete
    /\ before = NoFile
    /\ history = NoHistory
    /\ last = Idle

(***************************************************************************)
(* DatabaseConnectionCSV.__init__ on a path where no file exists: the file *)
(* is created and the header row written.  A store is neither a time       *)
(* series nor an object database only if the constructor raised.           *)
(***************************************************************************)
InitCSV ==
    /\ backend = "csv"
    /\ time_series_database \in BOOLEAN
    /\ object_database \in BOOLEAN
    /\ time_series_database \/ object_database
    /\ path \in Paths
    /\ field_names = FieldNames(time_series_database, object_database, DataFieldNames)
    /\ files = [p \in Paths |->
                    IF p = path THEN [exists |-> TRUE, lines |-> <<field_names>>]
                    ELSE NoFile]
    /\ pc = "idle"
    /\ del = NoDelete
    /\ before = NoFile
    /\ history = NoHistory
    /\ timestamp_field_name = Unset
    /\ object_id_field_name = Unset
    /\ data = <<>>
    /\ queue = NoQueue
    /\ held = NoHeld
    /\ last = Idle

Init == InitMemory \/ InitCSV

(***************************************************************************)
(* DatabaseConnectionCSV.__init__(path, time_series_database,              *)
(* object_database, data_field_names) on the file system fs: the exception *)
(* raised or "ok", and the file system it leaves.  With a header that does *)
(* not match, building the message of the exception reads self.fieldnames, *)
(* which no object has: AttributeError.  csv.DictReader.fieldnames is the  *)
(* first line of the file (None, here <<>>, for a file without lines).     *)
(***************************************************************************)
\* __init__ that compares the header with the field names as sets.
DatabaseConnectionCSV_init_AnyOrder(fs, p, ts_db, obj_db, data_field_names) ==
    LET names == FieldNames(ts_db, obj_db, data_field_names) IN
        IF ~ts_db /\ ~obj_db THEN [outcome |-> "ValueError", files |-> fs]
        ELSE IF TimestampName \in Range(data_field_names)
            THEN [outcome |-> "ValueError", files |-> fs]
        ELSE IF ObjectIdName \in Range(data_field_names)
            THEN [outcome |-> "ValueError", files |-> fs]
        ELSE IF fs[p].exists
            THEN IF Range(Header(fs[p])) # Range(names)
                    THEN [outcome |-> "AttributeError", files |-> fs]
                 ELSE [outcome |-> "ok", files |-> fs]
        ELSE [outcome |-> "ok",
              files |-> [fs EXCEPT ![p] = [exists |-> TRUE, lines |-> <<names>>]]]

\* __init__ without the check of the reserved name 'object_id'.
DatabaseConnectionCSV_init_ObjectIdFree(fs, p, ts_db, obj_db, data_field_names) ==
    LET names == FieldNames(ts_db, obj_db, data_field_names) IN
        IF ~ts_db /\ ~obj_db THEN [outcome |-> "ValueError", files |-> fs]
        ELSE IF TimestampName \in Range(data_field_names)
            THEN [outcome |-> "ValueError", files |-> fs]
        ELSE IF fs[p].exists
            THEN IF Header(fs[p]) # names
                    THEN [outcome |-> "AttributeError", files |-> fs]
                 ELSE [outcome |-> "ok", files |-> fs]
        ELSE [outcome |-> "ok",
              files |-> [fs EXCEPT ![p] = [exists |-> TRUE, lines |-> <<names>>]]]

DatabaseConnectionCSV_init(fs, p, ts_db, obj_db, data_field_names) ==
    LET names == FieldNames(ts_db, obj_db, data_field_names) IN
        IF ~ts_db /\ ~obj_db THEN [outcome |-> "ValueError", files |-> fs]
        ELSE IF TimestampName \in Range(data_field_names)
            THEN [outcome |-> "ValueError", files |-> fs]
        ELSE IF ObjectIdName \in Range(data_field_names)
            THEN [outcome |-> "ValueError", files |-> fs]
        ELSE IF fs[p].exists
            THEN IF Header(fs[p]) # names
                    THEN [outcome |-> "AttributeError", files |-> fs]
                 ELSE [outcome |-> "ok", files |-> fs]
        ELSE [outcome |-> "ok",
              files |-> [fs EXCEPT ![p] = [exists |-> TRUE, lines |-> <<names>>]]]

ConstructArgs ==
    [path : {"data.csv"}, time_series_database : BOOLEAN, object_database : BOOLEAN,
     data_field_names : {<<>>, <<ValueName>>, <<ValueName, ObjectIdName>>,
                         <<TimestampName>>}]

\* The files a constructor may find at the path.
ExistingFiles == {
    NoFile,
    [exists |-> TRUE, lines |-> <<>>],
    [exists |-> TRUE, lines |-> << <<TimestampName, ObjectIdName, ValueName>> >>],
    [exists |-> TRUE, lines |-> << <<ObjectIdName, TimestampName, ValueName>> >>],
    [exists |-> TRUE, lines |-> << <<TimestampName, ObjectIdName, ValueName>>,
                                   <<"2024-01-01T23:59:59+00:00", "a", "x">> >>] }

\* A store is constructed: the first one, or a new one in place of the one
\* in use; if the constructor raises, the caller has the store it had.
Construct ==
    /\ backend \in {"none", "csv"}
    /\ pc = "idle"
    /\ \E a \in ConstructArgs :
        LET r == DatabaseConnectionCSV_init(files, a.path, a.time_series_database,
                                            a.object_database, a.data_field_names)
        IN  /\ files' = r.files
            /\ before' = files[a.path]
            /\ last' = [op |-> "__init__", outcome |-> r.outcome, args |-> a,
                        result |-> <<>>]
            /\ IF r.outcome = "ok"
                   THEN /\ backend' = "csv"
                        /\ path' = a.path
                        /\ time_series_database' = a.time_series_database
                        /\ object_database' = a.object_database
                        /\ field_names' = FieldNames(a.time_series_database,
                                                     a.object_database,
                                                     a.data_field_names)
                        /\ history' = [history EXCEPT !.reopened = files[a.path].exists]
                ELSE UNCHANGED <<backend, path, time_series_database, object_database,
                                 field_names, history>>
    /\ UNCHANGED <<memVars, pc, del>>

\* No store has been constructed yet.
InitFileSystem ==
    /\ backend = "none"
    /\ timestamp_field_name = Unset
    /\ object_id_field_name = Unset
    /\ data = <<>>
    /\ queue = NoQueue
    /\ held = NoHeld
    /\ time_series_database = FALSE
    /\ object_database = FALSE
    /\ path = Unset
    /\ field_names = <<>>
    /\ \E f \in ExistingFiles :
        files = [p \in Paths |-> IF p = "data.csv" THEN f ELSE NoFile]
    /\ pc = "idle"
    /\ del = NoDelete
    /\ before = NoFile
    /\ history = NoHistory
    /\ last = Idle

\* The runs that construct CSV stores on the files they find, write and fetch.
NextConstruct == Construct \/ RoundTripWriteData \/ FetchDataObjectTimeSeries

SpecConstruct == InitFileSystem /\ [][NextConstruct]_vars

Next ==
    \/ MemWriteData
    \/ MemFetchData
    \/ CsvWriteData
    \/ FetchDataObjectTimeSeries
    \/ DeleteCall
    \/ DeleteOpenTemp
    \/ DeleteWriteHeader
    \/ DeleteRow
    \/ DeleteReplace
    \/ Interrupt

Spec == Init /\ [][Next]_vars

\* The runs in which a caller reads a store and changes what it was given.
NextReads ==
    \/ ReadsWriteData
    \/ HeldFetchData
    \/ ReadsToDataQueue
    \/ CallerSetsField
    \/ CallerPops
    \/ CsvWriteData
    \/ FetchDataObjectTimeSeries

SpecReads == Init /\ [][NextReads]_vars

\* The runs that iterate a DataQueue over the in-memory store.
NextQueue == QueueWriteData \/ QueueToDataQueue \/ QueueNext \/ QueueIter

SpecQueue == InitMemory /\ [][NextQueue]_vars

(***************************************************************************)
(* The instant a value denotes (seconds since 2024-01-01T00:00:00Z), a     *)
(* naive timestamp read as UTC: of a timestamp string, of a datetime.      *)
(***************************************************************************)
InstantOf(v) == IF v.k = "str" THEN Instant(v.s) ELSE v.loc - v.off

\* The filter of the specification on a record r with fields timestamp and
\* object_id: both bounds inclusive, every part optional.
InFilter(r, a) ==
    /\ a.start_time = None
        \/ (r.timestamp # None /\ InstantOf(r.timestamp) >= InstantOf(a.start_time))
    /\ a.end_time = None
        \/ (r.timestamp # None /\ InstantOf(r.timestamp) <= InstantOf(a.end_time))
    /\ ~a.object_ids.given
        \/ (r.object_id.k = "str" /\ r.object_id.s \in a.object_ids.of)

Selected(records, a) ==
    LET Test(r) == InFilter(r, a) IN SelectSeq(records, Test)

\* The records of a CSV file, as a fetch without filter converts them.
FileRecords(file) ==
    [i \in 1..Len(Rows(file)) |-> ValueDict(Header(file), Rows(file)[i])]

(***************************************************************************)
(* C1: a fetch that returns, returns exactly the stored records inside the *)
(* filter (start <= timestamp <= end, object id among the ids, each part   *)
(* optional), in store order, none missing and none added: fetch_data of   *)
(* the in-memory store (under its projection on fields) and                *)
(* fetch_data_object_time_series of the CSV store alike (before is the     *)
(* file the fetch read).                                                   *)
(***************************************************************************)
C1_FilterCorrectness ==
    /\ (last.op = "fetch_data" /\ last.outcome = "ok") =>
        LET sel == Selected(data, last.args) IN
            last.result =
                [i \in 1..Len(sel) |->
                    IF last.args.fields.given
                        THEN [key \in DOMAIN sel[i] \cap last.args.fields.of |-> sel[i][key]]
                    ELSE sel[i]]
    /\ (last.op = "fetch_data_object_time_series" /\ last.outcome = "ok") =>
        last.result = Selected(FileRecords(before), last.args)

\* A fetch with all three parts of the filter that keeps a record on both
\* bounds and leaves another out.
C1_Witness ==
    /\ last.op = "fetch_data"
    /\ last.outcome = "ok"
    /\ last.args.start_time # None
    /\ last.args.end_time # None
    /\ last.args.object_ids.given
    /\ Len(data) = 2
    /\ Len(last.result) = 1

C1_WitnessCSV ==
    /\ last.op = "fetch_data_object_time_series"
    /\ last.outcome = "ok"
    /\ last.args.start_time # None
    /\ last.args.end_time # None
    /\ last.args.object_ids.given
    /\ Len(Rows(before)) = 2
    /\ Len(last.result) = 1

(***************************************************************************)
(* The instant of the timestamp of a datapoint held by the queue.          *)
(***************************************************************************)
HasInstant(dp) == TimestampName \in DOMAIN dp /\ dp[TimestampName].k = "str"
InstantOfDatapoint(dp) == Instant(dp[TimestampName].s)

(***************************************************************************)
(* C2: the queue yields its records in non-decreasing order of the instant *)
(* their timestamps denote: for positions i < j of the queue,              *)
(* instant(record i) <= instant(record j), whatever offset or format each  *)
(* timestamp string is written in.                                         *)
(***************************************************************************)
C2_OrderedByInstant ==
    queue.exists =>
        \A i, j \in 1..Len(queue.data) :
            (i < j /\ HasInstant(queue.data[i]) /\ HasInstant(queue.data[j])) =>
                InstantOfDatapoint(queue.data[i]) <= InstantOfDatapoint(queue.data[j])

(***************************************************************************)
(* C3: the sort of the queue is stable on instants: the records whose      *)
(* timestamps denote one instant are yielded in the order they have in the *)
(* list the queue was built from (the fetch result).                       *)
(***************************************************************************)
C3_StableOnInstants ==
    queue.exists =>
        \A k \in 1..Len(queue.fetched) :
            HasInstant(queue.fetched[k]) =>
                LET Tie(dp) == /\ HasInstant(dp)
                               /\ InstantOfDatapoint(dp) = InstantOfDatapoint(queue.fetched[k])
                IN  SelectSeq(queue.data, Tie) = SelectSeq(queue.fetched, Tie)

(***************************************************************************)
(* C4: exhaustion is a steady state.  On a queue built from N records the  *)
(* first N calls of __next__ return the records of the queue in turn, and  *)
(* every later call raises StopIteration and returns nothing; the cursor   *)
(* stays at N from then on (calls counts the calls made on the queue).     *)
(***************************************************************************)
C4_ExhaustionSteady ==
    queue.exists =>
        /\ queue.next_data_pointer = Min(queue.calls, queue.num_datapoints)
        /\ queue.num_datapoints = Len(queue.data)
        /\ last.op = "next" =>
            IF queue.calls <= queue.num_datapoints
                THEN /\ last.outcome = "ok"
                     /\ last.result = <<queue.data[queue.calls]>>
            ELSE /\ last.outcome = "StopIteration"
                 /\ last.result = <<>>

\* A queue of two records, asked twice more after its end.
C4_Witness ==
    /\ queue.exists
    /\ queue.num_datapoints = 2
    /\ queue.calls = queue.num_datapoints + 2
    /\ last.op = "next"
    /\ last.outcome = "StopIteration"

(***************************************************************************)
(* A delete of the CSV store has just returned: before is the file it      *)
(* read, files[path] the file it left, last.args its arguments.            *)
(***************************************************************************)
DeleteReturned ==
    /\ pc = "idle"
    /\ last.op = "delete_data_object_time_series"
    /\ last.outcome = "ok"

\* The row matches the delete: start <= timestamp <= end and object id in ids.
Matches(file, row, a) == InFilter(ValueDict(Header(file), row), a)

(***************************************************************************)
(* C5: a delete of the CSV store preserves every non-matching record: the  *)
(* rows whose timestamp is outside [start, end] or whose object id is not  *)
(* among the ids are in the file afterwards as they were before, in the    *)
(* same order (so with "a" at 2024-01-01T00:00:00Z and "b" at              *)
(* 2024-01-02T00:00:00Z, delete(2024-01-01T00:00:00Z, 2024-01-01T23:59:59Z,*)
(* {"a"}) leaves "b").  Stated of a store at a path other than that of the *)
(* temporary file, where what is left is what the loop of the delete kept. *)
(***************************************************************************)
C5_DeletePreservesOthers ==
    (DeleteReturned /\ path # TempPath) =>
        LET Other(row) == ~Matches(before, row, last.args) IN
            SelectSeq(Rows(files[path]), Other) = SelectSeq(Rows(before), Other)

(***************************************************************************)
(* C6: a delete of the CSV store removes every matching record: when it    *)
(* has returned, the file holds no row with start <= timestamp <= end      *)
(* (bounds inclusive) and object id among the ids, so no fetch returns one.*)
(***************************************************************************)
C6_DeleteRemovesMatching ==
    DeleteReturned =>
        \A i \in 1..Len(Rows(files[path])) :
            ~Matches(files[path], Rows(files[path])[i], last.args)

\* A delete of a two-row file that removed a matching row and kept the other.
C6_Witness ==
    /\ DeleteReturned
    /\ path # TempPath
    /\ Len(Rows(before)) = 2
    /\ Len(Rows(files[path])) = 1
    /\ \E i \in 1..2 : Matches(before, Rows(before)[i], last.args)

(***************************************************************************)
(* The complete rewritten file of the delete in progress (or interrupted): *)
(* the header and the rows of before that the loop keeps.                  *)
(***************************************************************************)
InDelete == pc \in {"open_temp", "write_header", "rows", "replace", "dead"}

Rewritten ==
    LET a == IF pc = "dead" THEN last.args ELSE del.args
        Kept(row) == _delete_test(ValueDict(Header(before), row),
                                  _python_datetime_utc(a.start_time),
                                  _python_datetime_utc(a.end_time),
                                  a.object_ids.of) = "keep"
    IN  [exists |-> TRUE, lines |-> <<field_names>> \o SelectSeq(Rows(before), Kept)]

(***************************************************************************)
(* C7: during a delete of the CSV store, interrupted or not, the file at   *)
(* the store's path is at every moment either the complete file of before  *)
(* the delete or the complete rewritten file; no partly written file is    *)
(* ever at the store's path.                                               *)
(***************************************************************************)
C7_NeverPartial ==
    InDelete => (files[path] = before \/ files[path] = Rewritten)

(***************************************************************************)
(* C8: every record in a store has a non-missing value for each configured *)
(* identifying field: a record of the in-memory store for the configured   *)
(* timestamp field and the configured object-id field, a row of the CSV    *)
(* store of an object time series for timestamp and object_id (a write     *)
(* of a record without one fails and adds nothing).                        *)
(***************************************************************************)
C8_NonMissingValues ==
    /\ backend = "memory" =>
        \A i \in 1..Len(data) :
            /\ timestamp_field_name # Unset =>
                /\ timestamp_field_name \in DOMAIN data[i]
                /\ data[i][timestamp_field_name] # None
            /\ object_id_field_name # Unset =>
                /\ object_id_field_name \in DOMAIN data[i]
                /\ data[i][object_id_field_name] # None
    /\ (backend = "csv" /\ pc = "idle") =>
        \A i \in 1..Len(Rows(files[path])) :
            \A f \in {TimestampName, ObjectIdName} \cap Range(field_names) :
                Cell(Header(files[path]), Rows(files[path])[i], f) # ""

(***************************************************************************)
(* The first record of a batch that fails the validation of write_data,    *)
(* Len(batch) + 1 if none does.                                            *)
(***************************************************************************)
Invalid(datum) ==
    \/ timestamp_field_name # Unset /\ timestamp_field_name \notin DOMAIN datum
    \/ object_id_field_name # Unset /\ object_id_field_name \notin DOMAIN datum

FirstInvalid(batch) ==
    IF \E k \in 1..Len(batch) : Invalid(batch[k])
        THEN CHOOSE k \in 1..Len(batch) :
                Invalid(batch[k]) /\ \A j \in 1..(k - 1) : ~Invalid(batch[j])
    ELSE Len(batch) + 1

(***************************************************************************)
(* C9: a batch write has no rollback.  When the k-th record of the batch   *)
(* of write_data fails validation the call raises (ValueError), the store  *)
(* is the store of before followed by the k-1 records before it, in order, *)
(* and neither the k-th record nor any later one is added; a batch with no *)
(* failing record is appended whole and the call returns.                  *)
(***************************************************************************)
C9_NoRollback ==
    [][last'.op = "write_data" =>
        LET batch == last'.args.batch
            k == FirstInvalid(batch)
        IN  /\ data' = data \o SubSeq(batch, 1, k - 1)
            /\ last'.outcome = IF k <= Len(batch) THEN "ValueError" ELSE "ok"]_vars

\* A batch of two whose second record failed: the first one is in the store.
C9_Witness ==
    /\ last.op = "write_data"
    /\ last.outcome = "ValueError"
    /\ Len(last.args.batch) = 2
    /\ FirstInvalid(last.args.batch) = 2
    /\ Len(data) >= 1
    /\ data[Len(data)] = last.args.batch[1]

(***************************************************************************)
(* C10: a fetch with a start time or an end time on a store with no        *)
(* timestamp field configured, or with object ids on a store with no       *)
(* object-id field configured, raises (ValueError), returns nothing and    *)
(* leaves the store as it was: fetch_data of the in-memory store and       *)
(* fetch_data_object_time_series of the CSV store.                         *)
(***************************************************************************)
C10_UnsupportedQuery ==
    [][/\ ( /\ last'.op = "fetch_data"
            /\ \/ /\ timestamp_field_name = Unset
                  /\ last'.args.start_time # None \/ last'.args.end_time # None
               \/ /\ object_id_field_name = Unset
                  /\ last'.args.object_ids.given ) =>
            /\ last'.outcome = "ValueError"
            /\ last'.result = <<>>
            /\ data' = data
       /\ ( /\ last'.op = "fetch_data_object_time_series"
            /\ pc = "idle" /\ pc' = "idle"
            /\ \/ /\ ~time_series_database
                  /\ last'.args.start_time # None \/ last'.args.end_time # None
               \/ /\ ~object_database
                  /\ last'.args.object_ids.given ) =>
            /\ last'.outcome = "ValueError"
            /\ last'.result = <<>>
            /\ files' = files]_vars

\* A fetch with a start time on a store that holds a record and has no
\* timestamp field configured.
C10_Witness ==
    /\ last.op = "fetch_data"
    /\ last.outcome = "ValueError"
    /\ timestamp_field_name = Unset
    /\ last.args.start_time # None
    /\ Len(data) >= 1

C10_WitnessCSV ==
    /\ last.op = "fetch_data_object_time_series"
    /\ last.outcome = "ValueError"
    /\ ~object_database
    /\ last.args.object_ids.given
    /\ pc = "idle"

(***************************************************************************)
(* C11: to_data_queue on a store with no timestamp field configured raises *)
(* and returns no queue, whatever the store holds: also on an empty store  *)
(* and with a filter that selects nothing.                                 *)
(***************************************************************************)
C11_QueueNeedsTimestampField ==
    (last.op = "to_data_queue" /\ timestamp_field_name = Unset) =>
        (last.outcome # "ok" /\ ~queue.exists)

(***************************************************************************)
(* C12: a queue is a snapshot.  Whatever is written to the store after     *)
(* to_data_queue returned, and however the writes are interleaved with the *)
(* __next__ calls, the queue yields the records it was built from, sorted  *)
(* as at construction: as many, the same and in the same order.            *)
(***************************************************************************)
C12_Snapshot ==
    queue.exists =>
        LET snapshot == sort_by_key(queue.fetched, queue.timestamp_field_name) IN
            /\ queue.data = snapshot
            /\ queue.num_datapoints = Len(snapshot)
            /\ last.op = "next" =>
                IF queue.calls <= Len(snapshot)
                    THEN last.outcome = "ok" /\ last.result = <<snapshot[queue.calls]>>
                ELSE last.outcome = "StopIteration" /\ last.result = <<>>

\* A record returned by __next__ after a write that followed to_data_queue.
C12_Witness ==
    /\ queue.exists
    /\ last.op = "next"
    /\ last.outcome = "ok"
    /\ Len(data) > Len(queue.source)

(***************************************************************************)
(* A fetch without filter has just returned from a store constructed on    *)
(* the file after the writes of history.written.                           *)
(***************************************************************************)
FetchedAfterReopen ==
    /\ backend = "csv"
    /\ last.op = "fetch_data_object_time_series"
    /\ last.outcome = "ok"
    /\ last.args.start_time = None
    /\ last.args.end_time = None
    /\ ~last.args.object_ids.given
    /\ history.reopened

\* The value a write call gave for a field of the store (the timestamp as
\* the instant it denotes, in UTC).
WrittenValue(w, f) ==
    IF f = TimestampName THEN _python_datetime_utc(w.timestamp)
    ELSE IF f = ObjectIdName THEN w.object_id
    ELSE Get(w.data, f)

\* The last n records of a fetch result.
LastRecords(result, n) == SubSeq(result, Len(result) - n + 1, Len(result))

(***************************************************************************)
(* C13: file durability round trip.  After writes to a CSV store, a store  *)
(* constructed with the same configuration on the same path returns, on a  *)
(* fetch without filter, one record per record written, in order, each     *)
(* field equal to the value written (an empty string and a non-string      *)
(* scalar included).                                                       *)
(***************************************************************************)
C13_RoundTrip ==
    FetchedAfterReopen =>
        /\ Len(last.result) >= Len(history.written)
        /\ LastRecords(last.result, Len(history.written)) =
            [i \in 1..Len(history.written) |->
                [f \in Range(field_names) |-> WrittenValue(history.written[i], f)]]

\* The value read back for a value written, with the default converters:
\* None for None and for the empty string, str(value) for any other value
\* of a field other than timestamp, the datetime for the timestamp.
ReadBack(v) ==
    IF v = None \/ v = Str("") THEN None
    ELSE IF v.k = "int" THEN Str(DecimalText[v.loc])
    ELSE v

(***************************************************************************)
(* C13 as amended: the fetch returns one record per record written, in     *)
(* order, with the timestamp as the UTC datetime of the instant written,   *)
(* every non-empty string equal to the string written, None for a value    *)
(* that was None, missing or the empty string, and str(value) for any      *)
(* other scalar.                                                           *)
(***************************************************************************)
C13_RoundTripAsText ==
    FetchedAfterReopen =>
        /\ Len(last.result) >= Len(history.written)
        /\ LastRecords(last.result, Len(history.written)) =
            [i \in 1..Len(history.written) |->
                [f \in Range(field_names) |->
                    ReadBack(WrittenValue(history.written[i], f))]]

\* Two records written, one with an empty string or an int, fetched from a
\* store constructed on the file afterwards.
C13_Witness ==
    /\ FetchedAfterReopen
    /\ Len(history.written) = 2
    /\ \E i \in 1..2 : Get(history.written[i].data, ValueName) \in {Str(""), PyInt(5)}
    /\ \E i \in 1..2 : Get(history.written[i].data, ValueName) = Str("x")

(***************************************************************************)
(* A configuration the constructor accepts: a time series or an object     *)
(* database, no reserved name among the data field names.                  *)
(***************************************************************************)
ValidConfig(a) ==
    /\ a.time_series_database \/ a.object_database
    /\ TimestampName \notin Range(a.data_field_names)
    /\ ObjectIdName \notin Range(a.data_field_names)

ExpectedHeader(a) ==
    FieldNames(a.time_series_database, a.object_database, a.data_field_names)

(***************************************************************************)
(* C14: construction of a CSV store (with a valid configuration).  If the  *)
(* file exists and its header is not exactly the expected sequence of      *)
(* field names, the constructor raises and the file is unchanged; if it    *)
(* exists with that header, the constructor returns and the file and its   *)
(* rows are unchanged; if it does not exist, it is created with the header *)
(* line only.                                                              *)
(***************************************************************************)
C14_Construction ==
    [][(last'.op = "__init__" /\ ValidConfig(last'.args)) =>
        LET a == last'.args
            file == files[a.path]
        IN  IF file.exists /\ Header(file) # ExpectedHeader(a)
                THEN last'.outcome # "ok" /\ files' = files
            ELSE IF file.exists
                THEN last'.outcome = "ok" /\ files' = files
            ELSE /\ last'.outcome = "ok"
                 /\ files' = [files EXCEPT ![a.path] =
                                [exists |-> TRUE, lines |-> <<ExpectedHeader(a)>>]]]_vars

\* A constructor that raised on a file with a row under another header.
C14_Witness ==
    /\ last.op = "__init__"
    /\ last.outcome # "ok"
    /\ ValidConfig(last.args)
    /\ before.exists
    /\ Len(before.lines) = 2
    /\ files[last.args.path] = before

C14_WitnessCreated ==
    /\ last.op = "__init__"
    /\ last.outcome = "ok"
    /\ ~before.exists
    /\ files[last.args.path].lines = <<ExpectedHeader(last.args)>>

(***************************************************************************)
(* C15: delete requires its three arguments.  A delete called without      *)
(* start time, end time or object ids raises (ValueError) before it opens  *)
(* any file: no file is changed and no rewrite is begun.                   *)
(***************************************************************************)
C15_DeleteRequiresArguments ==
    [][( /\ last' # last
         /\ last'.op = "delete_data_object_time_series"
         /\ \/ last'.args.start_time = None
            \/ last'.args.end_time = None
            \/ ~last'.args.object_ids.given ) =>
        /\ last'.outcome = "ValueError"
        /\ files' = files
        /\ pc = "idle" /\ pc' = "idle"]_vars

\* A delete without end time on an object time series store that holds a row.
C15_Witness ==
    /\ last.op = "delete_data_object_time_series"
    /\ last.outcome = "ValueError"
    /\ time_series_database /\ object_database
    /\ last.args.start_time # None
    /\ last.args.end_time = None
    /\ last.args.object_ids.given
    /\ pc = "idle"
    /\ Len(Rows(files[path])) >= 1

(***************************************************************************)
(* C17: an invalid configuration is rejected at construction.  The         *)
(* constructor of a CSV store whose data field names hold the reserved     *)
(* name 'timestamp' or 'object_id', or that is neither a time series nor   *)
(* an object database, raises (ValueError) before it creates, reads or     *)
(* changes the file, and the caller gets no store.                         *)
(***************************************************************************)
C17_InvalidConfigRejected ==
    [][(last'.op = "__init__" /\ ~ValidConfig(last'.args)) =>
        /\ last'.outcome = "ValueError"
        /\ files' = files
        /\ UNCHANGED <<backend, path, field_names>>]_vars

\* A constructor given 'object_id' as a data field name, on a path with no file.
C17_Witness ==
    /\ last.op = "__init__"
    /\ last.outcome = "ValueError"
    /\ last.args.time_series_database /\ last.args.object_database
    /\ ObjectIdName \in Range(last.args.data_field_names)
    /\ ~files[last.args.path].exists

(***************************************************************************)
(* C16: projection.  A fetch_data that returns, returns one record per     *)
(* selected record; given fields, each has exactly the keys that the       *)
(* stored record has and the request names, with the stored values; not    *)
(* given fields, each has all the keys of the stored record.  The records  *)
(* selected are those of the filter, whatever the fields.                  *)
(***************************************************************************)
C16_Projection ==
    (last.op = "fetch_data" /\ last.outcome = "ok") =>
        LET stored == Selected(data, last.args) IN
            /\ Len(last.result) = Len(stored)
            /\ \A i \in 1..Len(stored) :
                /\ DOMAIN last.result[i] =
                    IF last.args.fields.given
                        THEN DOMAIN stored[i] \cap last.args.fields.of
                    ELSE DOMAIN stored[i]
                /\ \A key \in DOMAIN last.result[i] :
                    last.result[i][key] = stored[i][key]

\* Two records fetched with fields, only one of which has the field value.
C16_Witness ==
    /\ last.op = "fetch_data"
    /\ last.outcome = "ok"
    /\ last.args.fields.given
    /\ Len(last.result) = 2
    /\ DOMAIN last.result[1] # DOMAIN last.result[2]
    /\ \E i \in 1..Len(data) : TimestampName \in DOMAIN data[i]

(***************************************************************************)
(* C18: a timezone-naive timestamp is that instant in UTC, in both stores. *)
(* A fetch over records that all have a timestamp returns, and returns the *)
(* records whose instants, naive ones read as UTC, are inside the bounds,  *)
(* also when naive and aware values are mixed.                             *)
(***************************************************************************)
C18_NaiveIsUTC ==
    /\ ( /\ last.op = "fetch_data"
         /\ timestamp_field_name # Unset
         /\ last.args.object_ids.given => object_id_field_name # Unset
         /\ \A i \in 1..Len(data) :
                /\ TimestampName \in DOMAIN data[i]
                /\ data[i][TimestampName].k = "str"
                /\ ObjectIdName \in DOMAIN data[i] ) =>
            /\ last.outcome = "ok"
            /\ Len(last.result) = Len(Selected(data, last.args))
    /\ ( /\ last.op = "fetch_data_object_time_series"
         /\ time_series_database /\ object_database
         /\ \A i \in 1..Len(Rows(before)) :
                FileRecords(before)[i][TimestampName] # None ) =>
            /\ last.outcome = "ok"
            /\ last.result = Selected(FileRecords(before), last.args)

(***************************************************************************)
(* C19: a queue cannot be built from records without the timestamp field.  *)
(* When a record of the fetch result of to_data_queue lacks the timestamp  *)
(* field (as with fields that do not name it), to_data_queue raises        *)
(* (KeyError) and no queue results.                                        *)
(***************************************************************************)
C19_QueueNeedsTimestamps ==
    [][last'.op = "to_data_queue" =>
        LET r == fetch_data(data, last'.args) IN
            ( /\ r.outcome = "ok"
              /\ \E i \in 1..Len(r.result) :
                    timestamp_field_name \notin DOMAIN r.result[i] ) =>
                (last'.outcome = "KeyError" /\ queue' = queue)]_vars

\* to_data_queue with fields that leave the timestamp out, on a store with a
\* timestamp field.
C19_Witness ==
    /\ last.op = "to_data_queue"
    /\ last.outcome = "KeyError"
    /\ timestamp_field_name # Unset
    /\ last.args.fields.given
    /\ Len(data) >= 1

\* Two lists hold the same records, each as many times.
SameRecords(a, b) ==
    /\ Len(a) = Len(b)
    /\ \A i \in 1..Len(a) :
        Cardinality({j \in 1..Len(a) : a[j] = a[i]}) =
            Cardinality({j \in 1..Len(b) : b[j] = a[i]})

(***************************************************************************)
(* C20: to_data_queue is single-pass over exactly the fetch result.  The   *)
(* queue it returns holds the records fetch_data returns for the same      *)
(* arguments on the same store, each as many times, with the cursor at 0;  *)
(* every __next__ returns the record at the cursor and moves the cursor by *)
(* one, or signals the end with the cursor at the record count and leaves  *)
(* it there; the cursor never goes back, and __iter__ changes nothing.     *)
(***************************************************************************)
C20_SinglePass ==
    [][/\ (last'.op = "to_data_queue" /\ last'.outcome = "ok") =>
            /\ SameRecords(queue'.data, fetch_data(data, last'.args).result)
            /\ queue'.num_datapoints = Len(queue'.data)
            /\ queue'.next_data_pointer = 0
       /\ last'.op = "next" =>
            /\ queue'.data = queue.data
            /\ queue'.num_datapoints = queue.num_datapoints
            /\ IF queue.next_data_pointer < queue.num_datapoints
                   THEN /\ last'.outcome = "ok"
                        /\ last'.result = <<queue.data[queue.next_data_pointer + 1]>>
                        /\ queue'.next_data_pointer = queue.next_data_pointer + 1
               ELSE /\ last'.outcome = "StopIteration"
                    /\ last'.result = <<>>
                    /\ queue'.next_data_pointer = queue.num_datapoints
       /\ last'.op \in {"iter", "write_data"} => queue' = queue]_vars

\* A queue of two records, in another order than fetched, read to its end.
C20_Witness ==
    /\ queue.exists
    /\ queue.num_datapoints = 2
    /\ queue.data # queue.fetched
    /\ last.op = "next"
    /\ last.outcome = "StopIteration"

(***************************************************************************)
(* A call of write_data_object_time_series has just returned or raised.    *)
(***************************************************************************)
WriteStep ==
    /\ pc = "idle"
    /\ pc' = "idle"
    /\ last'.op = "write_data_object_time_series"
    /\ (last' # last \/ files' # files)

\* The data of a write call without the keys that are no field of the store.
ConfiguredData(d) == [f \in DOMAIN d \cap Range(field_names) |-> d[f]]

(***************************************************************************)
(* C21: each successful CSV write appends exactly one row after the        *)
(* existing rows, which stay unchanged, and the row has exactly the        *)
(* configured columns.  A key of data that is no configured field is       *)
(* dropped silently: the call ends as the call without that key ends and   *)
(* leaves the same file.  A configured data field absent from data, or     *)
(* None, is stored as an empty cell, which reads back as None.  A write    *)
(* that raises leaves the files as they were.                              *)
(***************************************************************************)
C21_AppendOneRow ==
    [][WriteStep =>
        LET w == last'.args
            old == files[path].lines
            new == files'[path].lines
            plain == write_data_object_time_series(files[path], w.timestamp,
                        w.object_id, ConfiguredData(w.data))
        IN  /\ last'.outcome = plain.outcome
            /\ files'[path] = plain.file
            /\ \A p \in Paths \ {path} : files'[p] = files[p]
            /\ last'.outcome # "ok" => files' = files
            /\ last'.outcome = "ok" =>
                /\ Len(new) = Len(old) + 1
                /\ SubSeq(new, 1, Len(old)) = old
                /\ Len(new[Len(new)]) = Len(field_names)
                /\ \A i \in 1..Len(field_names) :
                    (/\ field_names[i] \notin {TimestampName, ObjectIdName}
                     /\ Get(w.data, field_names[i]) = None)
                    => /\ new[Len(new)][i] = ""
                       /\ ValueDict(Header(files'[path]), new[Len(new)])[field_names[i]]
                            = None]_vars

\* A write with a key that is no field of the store and a None value has
\* added the second row of the file.
C21_Witness ==
    /\ backend = "csv"
    /\ last.op = "write_data_object_time_series"
    /\ last.outcome = "ok"
    /\ "extra" \in DOMAIN last.args.data
    /\ Get(last.args.data, ValueName) = None
    /\ ValueName \in Range(field_names)
    /\ Len(before.lines) = 2
    /\ Len(files[path].lines) = 3
    /\ files[path].lines[3][3] = ""

(***************************************************************************)
(* C22: reads are read-only.  A step of fetch_data or to_data_queue on the *)
(* in-memory store, or of fetch_data_object_time_series on the CSV store,  *)
(* that returns or raises, and a change the caller makes to a datapoint of *)
(* the list a fetch returned or to that list, leave the records of the     *)
(* store, their field values and their order as they were, and the files   *)
(* too: a later fetch reads the same store.                                *)
(***************************************************************************)
C22_ReadsAreReadOnly ==
    [][last'.op \in {"fetch_data", "to_data_queue", "fetch_data_object_time_series",
                     "caller_sets_field", "caller_pops"}
        => data' = data /\ files' = files]_vars

\* The caller has changed a datapoint of a fetch of two datapoints, made
\* without field selection, and the store holds both as they were written.
C22_Witness ==
    /\ backend = "memory"
    /\ last.op = "caller_sets_field"
    /\ Len(held.items) = 2
    /\ Len(data) = 2
    /\ \E i \in 1..2 : held.items[i].value \notin Range(data)
    /\ \E i \in 1..2 : held.items[i].value \in Range(data)
    /\ \A i \in 1..2 : DOMAIN held.items[i].value = DOMAIN data[i]

\* to_data_queue has sorted two datapoints into another order than the
\* store holds them in.
C22_WitnessSort ==
    /\ backend = "memory"
    /\ last.op = "to_data_queue"
    /\ last.outcome = "ok"
    /\ Len(queue.data) = 2
    /\ queue.data # queue.fetched
    /\ queue.fetched = data

\* A fetch on the CSV store has returned two records, or raised.
C22_WitnessCSV ==
    /\ backend = "csv"
    /\ last.op = "fetch_data_object_time_series"
    /\ Len(Rows(files[path])) = 2
    /\ last.outcome = "ok" => Len(last.result) = 2

(***************************************************************************)
(* C23: whenever no call is under way on a CSV store (after any sequence   *)
(* of writes and deletes that returned, and of calls that raised), the     *)
(* file exists, its first line is the configured header (timestamp and     *)
(* object_id as configured, then the data fields in order) and every other *)
(* line is a row of one cell per field: the constructor, called with the   *)
(* same configuration on the same path, returns and leaves the file.       *)
(***************************************************************************)
C23_HeaderKept ==
    (backend = "csv" /\ pc = "idle") =>
        LET file == files[path]
            again == DatabaseConnectionCSV_init(files, path, time_series_database,
                                                object_database, DataFieldNames)
        IN  /\ file.exists
            /\ Header(file) = FieldNames(time_series_database, object_database,
                                         DataFieldNames)
            /\ \A i \in 1..Len(Rows(file)) : Len(Rows(file)[i]) = Len(Header(file))
            /\ again.outcome = "ok"
            /\ again.files = files

\* A delete has returned that removed one of two rows written before.
C23_Witness ==
    /\ backend = "csv"
    /\ pc = "idle"
    /\ last.op = "delete_data_object_time_series"
    /\ last.outcome = "ok"
    /\ Len(Rows(before)) = 2
    /\ Len(Rows(files[path])) = 1

(***************************************************************************)
(* C24: the row appended by write_data_object_time_series(timestamp,       *)
(* object_id, data) has the timestamp argument, normalised to UTC, in its  *)
(* timestamp column and the object_id argument in its object_id column,    *)
(* whatever the keys of data, 'timestamp' and 'object_id' included.        *)
(***************************************************************************)
C24_RowCarriesArguments ==
    (/\ backend = "csv"
     /\ pc = "idle"
     /\ last.op = "write_data_object_time_series"
     /\ last.outcome = "ok")
    => LET row == files[path].lines[Len(files[path].lines)] IN
        /\ Cell(field_names, row, TimestampName) =
                IsoFormat(_python_datetime_utc(last.args.timestamp))
        /\ Cell(field_names, row, ObjectIdName) =
                _convert_to_string(ObjectIdName, last.args.object_id)

====
